---- MODULE Spec2Model ----
(***************************************************************************)
(* Model of packages/arb-validator/rollupvalidator/nodeProcessing.go:      *)
(* processNode, getTxInfo, nodeInfo.FindLogs, nodeInfo.calculateBloomFilter *)
(* and nodeInfo.Equals.                                                     *)
(*                                                                          *)
(* Scaling.  A common.Hash is 32 bytes; here a hash is one byte (0..255),   *)
(* so hexutil.Encode yields "0x" followed by two hex digits.  A Go string   *)
(* is a sequence of one-character strings.  uint64 arithmetic is done       *)
(* modulo UintMod.  Go slices are 0-based; TLA+ sequences are 1-based, the  *)
(* helpers IndexExpr and SliceFrom do the translation and model the         *)
(* run-time panics of Go's index and slice expressions.                     *)
(***************************************************************************)
EXTENDS Integers, Sequences, FiniteSets, TLC

VARIABLES node, chain, pc, ni, txIndexArg, txInfo, query, foundLogs,
          ethLogs, bloom, other, eq

vars == <<node, chain, pc, ni, txIndexArg, txInfo, query, foundLogs,
          ethLogs, bloom, other, eq>>

(***************************************************************************)
(* Bounds of the model.                                                     *)
(***************************************************************************)
\* longest Assertion.Logs sequence explored
MaxLogs == 3
\* largest node depth explored
MaxDepth == 1
\* uint64 is modelled as the integers modulo UintMod
UintMod == 8

(***************************************************************************)
(* Collaborators outside nodeProcessing.go.                                 *)
(***************************************************************************)
\* valprotocol.ChildType: three invalid child types and the valid one
ValidChildType == 3

ChildTypes == 0..ValidChildType

\* raw AVM log values (value.Value) that an assertion may carry
Values == 0..3

\* EVM logs (evm.Log) that the raw values decode to
LogA == [Address |-> 1, Topics |-> <<10, 11>>]

LogB == [Address |-> 2, Topics |-> <<10>>]

LogC == [Address |-> 1, Topics |-> <<>>]

\* evm.ProcessLog: value 0 is not a valid EVM result; 1 and 3 are returns
\* with logs; 2 is a revert.  msgTxHash is GetEthMsg().TxHash().
ProcessLog(logVal, chainAddr) ==
    CASE logVal = 0 -> [err |-> TRUE]
      [] logVal = 1 -> [err |-> FALSE, kind |-> "Return", msgTxHash |-> 161,
                        logs |-> <<LogA, LogB>>]
      [] logVal = 2 -> [err |-> FALSE, kind |-> "Revert", msgTxHash |-> 162,
                        logs |-> <<>>]
      [] OTHER      -> [err |-> FALSE, kind |-> "Return", msgTxHash |-> 163,
                        logs |-> <<LogC>>]

\* value.Value.Hash()
ValueHash(v) == (v * 37 + 11) % 256

\* value.Eq
ValueEq(a, b) == a = b

\* hashing.SoliditySHA3(hashing.Bytes32(a), hashing.Bytes32(b)): one hash
\* over the packed concatenation a || b
SoliditySHA3(a, b) == (a * 167 + b * 13 + 89) % 256

\* common.Hash{}
ZeroHash == 0

HexDigits == <<"0", "1", "2", "3", "4", "5", "6", "7",
               "8", "9", "a", "b", "c", "d", "e", "f">>

\* hexutil.Encode of a one-byte hash
Encode(h) == <<"0", "x", HexDigits[(h \div 16) + 1], HexDigits[(h % 16) + 1]>>

HexVal(c) == CHOOSE d \in 0..15 : HexDigits[d + 1] = c

\* hexutil.Decode, the inverse used by a verifier replaying the chain
Decode(s) == HexVal(s[3]) * 16 + HexVal(s[4])

(***************************************************************************)
(* Go index and slice expressions.                                          *)
(***************************************************************************)
Panic == [panic |-> TRUE]

\* s[i]: panics when i is out of range
IndexExpr(s, i) ==
    IF i >= 0 /\ i < Len(s) THEN [panic |-> FALSE, val |-> s[i + 1]]
    ELSE Panic

\* s[lo:]: panics when lo > len(s)
SliceFrom(s, lo) ==
    IF lo >= 0 /\ lo <= Len(s)
    THEN [panic |-> FALSE, val |-> SubSeq(s, lo + 1, Len(s))]
    ELSE Panic

(***************************************************************************)
(* processNode                                                              *)
(***************************************************************************)
newNodeInfo ==
    [EVMLogs |-> <<>>, EVMTransactionHashes |-> <<>>,
     AVMLogs |-> <<>>, AVMMessages |-> <<>>,
     AVMLogsAccHashes |-> <<>>, AVMLogsValHashes |-> <<>>,
     NodeHash |-> ZeroHash, NodeHeight |-> 0, L1TxHash |-> ZeroHash]

\* the first loop of processNode: the state <<val hashes, acc hashes, acc>>
\* after the first n logs
RECURSIVE HashLoop(_, _)
HashLoop(logs, n) ==
    IF n = 0 THEN [val |-> <<>>, acc |-> <<>>, cur |-> ZeroHash]
    ELSE LET prev == HashLoop(logs, n - 1)
             logsValHash == ValueHash(logs[n])
             acc == SoliditySHA3(prev.cur, logsValHash)
         IN [val |-> Append(prev.val, Encode(logsValHash)),
             acc |-> Append(prev.acc, Encode(acc)),
             cur |-> acc]

\* a slip: every accumulator entry is folded from the zero hash instead of
\* from the running accumulator
LogHashes_Unchained(logs) ==
    [val |-> HashLoop(logs, Len(logs)).val,
     acc |-> [i \in 1..Len(logs) |->
                 Encode(SoliditySHA3(ZeroHash, ValueHash(logs[i])))],
     cur |-> HashLoop(logs, Len(logs)).cur]

LogHashes(logs) == HashLoop(logs, Len(logs))

\* the second loop of processNode: <<EVMLogs, EVMTransactionHashes>> after
\* the first n logs; Go index i is n - 1
RECURSIVE DecodeLoop(_, _, _)
DecodeLoop(logs, chainAddr, n) ==
    IF n = 0 THEN [evmLogs |-> <<>>, txHashes |-> <<>>]
    ELSE LET prev == DecodeLoop(logs, chainAddr, n - 1)
             evmVal == ProcessLog(logs[n], chainAddr)
         IN IF evmVal.err THEN prev
            ELSE [evmLogs |-> Append(prev.evmLogs,
                                     [Logs |-> evmVal.logs,
                                      TxIndex |-> n - 1,
                                      TxHash |-> evmVal.msgTxHash]),
                  txHashes |-> Append(prev.txHashes, evmVal.msgTxHash)]

\* a slip: a group is tagged with its position among the decoded groups
\* instead of the index of its raw log
DecodeLogs_Compact(logs, chainAddr) ==
    LET d == DecodeLoop(logs, chainAddr, Len(logs))
    IN [d EXCEPT !.evmLogs = [p \in 1..Len(d.evmLogs) |->
                                 [d.evmLogs[p] EXCEPT !.TxIndex = p - 1]]]

DecodeLogs(logs, chainAddr) == DecodeLoop(logs, chainAddr, Len(logs))

\* a slip: the link type is not tested
processNode_NoLinkTest(n, chainAddr) ==
    LET h == LogHashes(n.logs)
        d == DecodeLogs(n.logs, chainAddr)
    IN [newNodeInfo EXCEPT !.NodeHash = n.hash,
                           !.NodeHeight = n.depth,
                           !.L1TxHash = n.txHash,
                           !.AVMMessages = n.msgs,
                           !.AVMLogs = n.logs,
                           !.AVMLogsValHashes = h.val,
                           !.AVMLogsAccHashes = h.acc,
                           !.EVMLogs = d.evmLogs,
                           !.EVMTransactionHashes = d.txHashes]

processNode(n, chainAddr) ==
    LET base == [newNodeInfo EXCEPT !.NodeHash = n.hash,
                                    !.NodeHeight = n.depth,
                                    !.L1TxHash = n.txHash]
    IN IF n.linkType # ValidChildType THEN base
       ELSE LET logs == n.logs
                h == LogHashes(logs)
                d == DecodeLogs(logs, chainAddr)
            IN [base EXCEPT !.AVMMessages = n.msgs,
                            !.AVMLogs = logs,
                            !.AVMLogsValHashes = h.val,
                            !.AVMLogsAccHashes = h.acc,
                            !.EVMLogs = d.evmLogs,
                            !.EVMTransactionHashes = d.txHashes]

(***************************************************************************)
(* getTxInfo                                                                *)
(***************************************************************************)
\* a slip: the first accumulator entry instead of the last
LogsPostHashOf_First(nodeInfo) ==
    IF Len(nodeInfo.AVMLogsAccHashes) > 0
    THEN nodeInfo.AVMLogsAccHashes[1]
    ELSE Encode(ZeroHash)

LogsPostHashOf(nodeInfo) ==
    IF Len(nodeInfo.AVMLogsAccHashes) > 0
    THEN nodeInfo.AVMLogsAccHashes[Len(nodeInfo.AVMLogsAccHashes)]
    ELSE Encode(ZeroHash)

\* a slip: the accumulator after the transaction's own log
LogsPreHashOf_Own(nodeInfo, txIndex) ==
    IF txIndex > 0
    THEN IndexExpr(nodeInfo.AVMLogsAccHashes, txIndex)
    ELSE [panic |-> FALSE, val |-> Encode(ZeroHash)]

LogsPreHashOf(nodeInfo, txIndex) ==
    IF txIndex > 0
    THEN IndexExpr(nodeInfo.AVMLogsAccHashes, txIndex - 1)
    ELSE [panic |-> FALSE, val |-> Encode(ZeroHash)]

\* a slip: the suffix starts one position later
LogsValHashesOf_Plus2(nodeInfo, txIndex) ==
    SliceFrom(nodeInfo.AVMLogsValHashes, (txIndex + 2) % UintMod)

\* txIndex+1 is uint64 arithmetic and wraps
LogsValHashesOf(nodeInfo, txIndex) ==
    SliceFrom(nodeInfo.AVMLogsValHashes, (txIndex + 1) % UintMod)

\* a slip: an index out of range is answered with defaulted fields
getTxInfo_Defaulted(txHash, nodeInfo, txIndex) ==
    LET logsPreHash == LogsPreHashOf(nodeInfo, txIndex)
        logsValHashes == LogsValHashesOf(nodeInfo, txIndex)
        rawVal == IndexExpr(nodeInfo.AVMLogs, txIndex)
    IN [panic |-> FALSE,
        Found |-> TRUE,
        NodeHeight |-> nodeInfo.NodeHeight,
        NodeHash |-> nodeInfo.NodeHash,
        TransactionHash |-> txHash,
        TransactionIndex |-> txIndex,
        RawVal |-> IF rawVal.panic THEN 0 ELSE rawVal.val,
        LogsPreHash |-> IF logsPreHash.panic THEN Encode(ZeroHash)
                        ELSE logsPreHash.val,
        LogsPostHash |-> LogsPostHashOf(nodeInfo),
        LogsValHashes |-> IF logsValHashes.panic THEN <<>>
                          ELSE logsValHashes.val,
        OnChainTxHash |-> nodeInfo.L1TxHash]

getTxInfo(txHash, nodeInfo, txIndex) ==
    LET logsPostHash == LogsPostHashOf(nodeInfo)
        logsPreHash == LogsPreHashOf(nodeInfo, txIndex)
        logsValHashes == LogsValHashesOf(nodeInfo, txIndex)
        rawVal == IndexExpr(nodeInfo.AVMLogs, txIndex)
    IN IF logsPreHash.panic \/ logsValHashes.panic \/ rawVal.panic THEN Panic
       ELSE [panic |-> FALSE,
             Found |-> TRUE,
             NodeHeight |-> nodeInfo.NodeHeight,
             NodeHash |-> nodeInfo.NodeHash,
             TransactionHash |-> txHash,
             TransactionIndex |-> txIndex,
             RawVal |-> rawVal.val,
             LogsPreHash |-> logsPreHash.val,
             LogsPostHash |-> logsPostHash,
             LogsValHashes |-> logsValHashes.val,
             OnChainTxHash |-> nodeInfo.L1TxHash]

(***************************************************************************)
(* nodeInfo.FindLogs                                                        *)
(***************************************************************************)
\* evm.Log.MatchesQuery: the address is one of addresses (none given matches
\* all); topics has no more positions than the log has topics, and at each
\* position the log's topic is one of the alternatives (none given matches
\* any)
MatchesQuery(evmLog, addresses, topics) ==
    /\ Len(addresses) > 0 =>
          \E k \in 1..Len(addresses) : addresses[k] = evmLog.Address
    /\ Len(topics) <= Len(evmLog.Topics)
    /\ \A k \in 1..Len(topics) :
          \/ Len(topics[k]) = 0
          \/ \E j \in 1..Len(topics[k]) : topics[k][j] = evmLog.Topics[k]

\* the inner loop of FindLogs over the first n logs of one group
RECURSIVE FindInGroup(_, _, _, _)
FindInGroup(txLogs, addresses, topics, n) ==
    IF n = 0 THEN <<>>
    ELSE LET prev == FindInGroup(txLogs, addresses, topics, n - 1)
             evmLog == txLogs.Logs[n]
         IN IF MatchesQuery(evmLog, addresses, topics)
            THEN Append(prev, [Log |-> evmLog,
                               TxIndex |-> txLogs.TxIndex,
                               TxHash |-> txLogs.TxHash])
            ELSE prev

\* the outer loop of FindLogs over the first g groups
RECURSIVE FindLoop(_, _, _, _)
FindLoop(evmLogs, addresses, topics, g) ==
    IF g = 0 THEN <<>>
    ELSE FindLoop(evmLogs, addresses, topics, g - 1)
         \o FindInGroup(evmLogs[g], addresses, topics, Len(evmLogs[g].Logs))

\* a slip: the groups are scanned last to first
FindLogs_Reversed(nodeInfo, addresses, topics) ==
    LET n == Len(nodeInfo.EVMLogs)
    IN FindLoop([g \in 1..n |-> nodeInfo.EVMLogs[n + 1 - g]],
                addresses, topics, n)

FindLogs(nodeInfo, addresses, topics) ==
    FindLoop(nodeInfo.EVMLogs, addresses, topics, Len(nodeInfo.EVMLogs))

(***************************************************************************)
(* nodeInfo.calculateBloomFilter                                            *)
(***************************************************************************)
\* evm.FullLog.ToEVMLog: the types.Log carrying the log and its provenance
ToEVMLog(fullLog) ==
    [Address |-> fullLog.Log.Address,
     Topics |-> fullLog.Log.Topics,
     BlockNumber |-> fullLog.NodeHeight,
     TxHash |-> fullLog.TxHash,
     TxIndex |-> fullLog.TxIndex,
     BlockHash |-> fullLog.NodeHash,
     Index |-> 0]

\* the inner loop of calculateBloomFilter over the first n logs of the group
\* at Go index i, entered with logIndex = startIndex
RECURSIVE BloomInGroup(_, _, _, _, _)
BloomInGroup(nodeInfo, i, logsInfo, startIndex, n) ==
    IF n = 0 THEN <<>>
    ELSE LET prev == BloomInGroup(nodeInfo, i, logsInfo, startIndex, n - 1)
             l == ToEVMLog([Log |-> logsInfo.Logs[n],
                            TxIndex |-> i,
                            TxHash |-> logsInfo.TxHash,
                            NodeHeight |-> nodeInfo.NodeHeight,
                            NodeHash |-> nodeInfo.NodeHash])
         IN Append(prev, [l EXCEPT !.Index = startIndex + Len(prev)])

\* the outer loop of calculateBloomFilter over the first g groups; logIndex
\* is the number of logs appended so far
RECURSIVE BloomLoop(_, _)
BloomLoop(nodeInfo, g) ==
    IF g = 0 THEN <<>>
    ELSE LET prev == BloomLoop(nodeInfo, g - 1)
             logsInfo == nodeInfo.EVMLogs[g]
         IN prev \o BloomInGroup(nodeInfo, g - 1, logsInfo, Len(prev),
                                 Len(logsInfo.Logs))

BloomEthLogs(nodeInfo) == BloomLoop(nodeInfo, Len(nodeInfo.EVMLogs))

\* the bits one hashed datum sets (three bits per datum)
BloomBits(x) == {(x * 5 + 3) % 32, (x * 11 + 1) % 32, (x * 13 + 7) % 32}

\* types.LogsBloom: the bits of every log's address and topics
LogsBloom(logs) ==
    UNION {BloomBits(logs[k].Address) : k \in 1..Len(logs)}
    \cup UNION {UNION {BloomBits(logs[k].Topics[j]) :
                         j \in 1..Len(logs[k].Topics)} : k \in 1..Len(logs)}

calculateBloomFilter(nodeInfo) == LogsBloom(BloomEthLogs(nodeInfo))

(***************************************************************************)
(* nodeInfo.Equals                                                          *)
(***************************************************************************)
valueSlicesEqual(a, b) ==
    /\ Len(a) = Len(b)
    /\ \A i \in 1..Len(a) : ValueEq(a[i], b[i])

stringSlicesEqual(a, b) ==
    /\ Len(a) = Len(b)
    /\ \A i \in 1..Len(a) : a[i] = b[i]

\* logsInfo.Equals: same transaction hash and index, logs equal in order
logsInfoEquals(a, b) ==
    /\ a.TxHash = b.TxHash
    /\ a.TxIndex = b.TxIndex
    /\ Len(a.Logs) = Len(b.Logs)
    /\ \A i \in 1..Len(a.Logs) : a.Logs[i] = b.Logs[i]

logSlicesEqual(a, b) ==
    /\ Len(a) = Len(b)
    /\ \A i \in 1..Len(a) : logsInfoEquals(a[i], b[i])

hashSlicesEqual(a, b) ==
    /\ Len(a) = Len(b)
    /\ \A i \in 1..Len(a) : a[i] = b[i]

Equals(a, o) ==
    /\ logSlicesEqual(a.EVMLogs, o.EVMLogs)
    /\ hashSlicesEqual(a.EVMTransactionHashes, o.EVMTransactionHashes)
    /\ valueSlicesEqual(a.AVMLogs, o.AVMLogs)
    /\ valueSlicesEqual(a.AVMMessages, o.AVMMessages)
    /\ stringSlicesEqual(a.AVMLogsAccHashes, o.AVMLogsAccHashes)
    /\ stringSlicesEqual(a.AVMLogsValHashes, o.AVMLogsValHashes)
    /\ a.NodeHash = o.NodeHash
    /\ a.NodeHeight = o.NodeHeight

(***************************************************************************)
(* The state machine: a node is drawn, processNode derives its nodeInfo.    *)
(***************************************************************************)
RECURSIVE SeqsUpTo(_, _)
SeqsUpTo(S, n) ==
    IF n = 0 THEN {<<>>}
    ELSE LET shorter == SeqsUpTo(S, n - 1)
         IN shorter \cup {Append(s, x) : s \in {t \in shorter : Len(t) = n - 1}, x \in S}

NodeHashes == {177, 178}

Nodes ==
    [hash : NodeHashes, depth : 0..MaxDepth, linkType : ChildTypes,
     txHash : {195}, logs : SeqsUpTo(Values, MaxLogs), msgs : {<<>>, <<7>>}]

Init ==
    /\ node \in Nodes
    /\ chain = 9
    /\ pc = "start"
    /\ ni = <<>>
    /\ txIndexArg = 0
    /\ txInfo = <<>>
    /\ query = <<>>
    /\ foundLogs = <<>>
    /\ ethLogs = <<>>
    /\ bloom = {}
    /\ other = <<>>
    /\ eq = FALSE

ProcessNode ==
    /\ pc = "start"
    /\ ni' = processNode(node, chain)
    /\ pc' = "derived"
    /\ UNCHANGED <<node, chain, txIndexArg, txInfo, query, foundLogs,
                   ethLogs, bloom, other, eq>>

\* getTxInfo is called with any uint64 index
GetTxInfo ==
    /\ pc = "derived"
    /\ \E i \in 0..(UintMod - 1) :
          /\ txIndexArg' = i
          /\ txInfo' = getTxInfo(161, ni, i)
    /\ pc' = "txinfo"
    /\ UNCHANGED <<node, chain, ni, query, foundLogs, ethLogs, bloom, other, eq>>

AddressQueries == {<<>>, <<1>>, <<2>>, <<2, 1>>, <<3>>}

TopicQueries == {<<>>, <<<<>>>>, <<<<10>>>>, <<<<12, 10>>, <<11>>>>, <<<<>>, <<11>>>>}

FindLogsCall ==
    /\ pc = "derived"
    /\ \E addresses \in AddressQueries, topics \in TopicQueries :
          /\ query' = [addresses |-> addresses, topics |-> topics]
          /\ foundLogs' = FindLogs(ni, addresses, topics)
    /\ pc' = "found"
    /\ UNCHANGED <<node, chain, ni, txIndexArg, txInfo, ethLogs, bloom, other, eq>>

CalculateBloomFilter ==
    /\ pc = "derived"
    /\ ethLogs' = BloomEthLogs(ni)
    /\ bloom' = calculateBloomFilter(ni)
    /\ pc' = "bloom"
    /\ UNCHANGED <<node, chain, ni, txIndexArg, txInfo, query, foundLogs, other, eq>>

\* the nodes that differ from n in at most one field
Neighbours(n) ==
    {n}
    \cup {[n EXCEPT !.hash = h] : h \in NodeHashes}
    \cup {[n EXCEPT !.depth = d] : d \in 0..MaxDepth}
    \cup {[n EXCEPT !.txHash = 196]}
    \cup {[n EXCEPT !.msgs = <<8>>]}
    \cup {[n EXCEPT !.linkType = ValidChildType - 1]}
    \cup {[n EXCEPT !.logs = Append(n.logs, v)] : v \in Values}
    \cup {[n EXCEPT !.logs = SubSeq(n.logs, 1, Len(n.logs) - 1)]}

\* Equals compares the nodeInfo with the one derived from another node
EqualsCall ==
    /\ pc = "derived"
    /\ \E n2 \in Neighbours(node) :
          /\ other' = processNode(n2, chain)
          /\ eq' = Equals(ni, processNode(n2, chain))
    /\ pc' = "equals"
    /\ UNCHANGED <<node, chain, ni, txIndexArg, txInfo, query, foundLogs, ethLogs, bloom>>

Next ==
    \/ ProcessNode
    \/ GetTxInfo
    \/ FindLogsCall
    \/ CalculateBloomFilter
    \/ EqualsCall

Spec == Init /\ [][Next]_vars

(***************************************************************************)
(* Properties.                                                              *)
(***************************************************************************)
Derived == pc # "start"

ValidNode == node.linkType = ValidChildType

\* Go index i of the raw logs decodes without error
Decodes(i) == ~ProcessLog(node.logs[i + 1], chain).err

\* C1: for a valid node the value hashes, the accumulator hashes and the raw
\* logs have the same length, each value hash is the encoded hash of its raw
\* log, and each accumulator entry is H(previous entry || value hash), the
\* entry before the first being the zero hash; decode failures do not matter.
C1_HashChain ==
    (Derived /\ ValidNode) =>
        /\ ni.AVMLogs = node.logs
        /\ Len(ni.AVMLogsValHashes) = Len(ni.AVMLogs)
        /\ Len(ni.AVMLogsAccHashes) = Len(ni.AVMLogs)
        /\ \A i \in 1..Len(ni.AVMLogs) :
              /\ ni.AVMLogsValHashes[i] = Encode(ValueHash(ni.AVMLogs[i]))
              /\ ni.AVMLogsAccHashes[i] =
                    Encode(SoliditySHA3(
                        IF i = 1 THEN ZeroHash
                        ELSE Decode(ni.AVMLogsAccHashes[i - 1]),
                        Decode(ni.AVMLogsValHashes[i])))

\* three raw logs, the middle one undecodable, have been hashed
C1_Witness ==
    /\ pc = "derived" /\ ValidNode
    /\ Len(node.logs) = 3 /\ ~Decodes(1)
    /\ Len(ni.AVMLogsAccHashes) = 3
    /\ ni.AVMLogsAccHashes[3] # ni.AVMLogsAccHashes[2]

\* C2: for a valid node there is exactly one EVMLogs group per raw log that
\* decodes and none for one that does not: the TxIndex values are exactly the
\* indices of the decodable logs, strictly increasing, each group carries the
\* decoded logs and transaction hash of its raw log, EVMTransactionHashes is
\* aligned with EVMLogs, and there are at most len(AVMLogs) groups.  A revert
\* decodes and is recorded.
C2_GroupsPerDecodedLog ==
    (Derived /\ ValidNode) =>
        LET ok == {i \in 0..(Len(node.logs) - 1) : Decodes(i)}
            n == Len(ni.EVMLogs)
        IN /\ {ni.EVMLogs[p].TxIndex : p \in 1..n} = ok
           /\ n = Cardinality(ok)
           /\ \A p \in 1..n, q \in 1..n :
                 p < q => ni.EVMLogs[p].TxIndex < ni.EVMLogs[q].TxIndex
           /\ \A p \in 1..n :
                 LET r == ProcessLog(node.logs[ni.EVMLogs[p].TxIndex + 1], chain)
                 IN /\ ni.EVMLogs[p].Logs = r.logs
                    /\ ni.EVMLogs[p].TxHash = r.msgTxHash
           /\ Len(ni.EVMTransactionHashes) = n
           /\ \A p \in 1..n : ni.EVMTransactionHashes[p] = ni.EVMLogs[p].TxHash
           /\ n <= Len(ni.AVMLogs)

\* three raw logs, log 1 undecodable and log 2 a revert: groups 0 and 2
C2_Witness ==
    /\ pc = "derived" /\ ValidNode
    /\ Len(node.logs) = 3 /\ Decodes(0) /\ ~Decodes(1)
    /\ Decodes(2) /\ ProcessLog(node.logs[3], chain).kind = "Revert"
    /\ Len(ni.EVMLogs) = 2
    /\ ni.EVMLogs[2].TxIndex = 2

\* C3: for a node that is not a valid child the nodeInfo carries the node's
\* hash, depth and assertion transaction hash and all six log and message
\* fields are empty, whatever the assertion holds.
C3_NonValidEmpty ==
    (Derived /\ ~ValidNode) =>
        /\ ni.NodeHash = node.hash
        /\ ni.NodeHeight = node.depth
        /\ ni.L1TxHash = node.txHash
        /\ ni.AVMLogs = <<>>
        /\ ni.AVMMessages = <<>>
        /\ ni.AVMLogsValHashes = <<>>
        /\ ni.AVMLogsAccHashes = <<>>
        /\ ni.EVMLogs = <<>>
        /\ ni.EVMTransactionHashes = <<>>

\* a non-valid node whose assertion holds logs and messages has been derived
C3_Witness ==
    /\ pc = "derived" /\ ~ValidNode
    /\ Len(node.logs) = 3 /\ Decodes(0) /\ node.msgs # <<>>
    /\ ni.NodeHash = node.hash

\* C4: a.Equals(b) is true exactly when every field of the two records is
\* equal, L1TxHash included.
C4_EqualsIffAllFields ==
    pc = "equals" => (eq <=> ni = other)

\* C5: for txIndex < len(AVMLogs) getTxInfo returns LogsPreHash = the zero
\* hash when txIndex = 0 and AVMLogsAccHashes[txIndex-1] otherwise, and
\* LogsPostHash = the last accumulator entry, also after a decode failure.
C5_PrePostHash ==
    (pc = "txinfo" /\ txIndexArg < Len(ni.AVMLogs)) =>
        /\ ~txInfo.panic
        /\ txInfo.LogsPreHash =
              (IF txIndexArg = 0 THEN Encode(ZeroHash)
               ELSE ni.AVMLogsAccHashes[txIndexArg])
        /\ txInfo.LogsPostHash =
              ni.AVMLogsAccHashes[Len(ni.AVMLogsAccHashes)]

\* three raw logs, log 1 undecodable, txIndex 2
C5_Witness ==
    /\ pc = "txinfo" /\ txIndexArg = 2
    /\ Len(ni.AVMLogs) = 3 /\ ~Decodes(1) /\ Len(ni.EVMLogs) = 2
    /\ ~txInfo.panic
    /\ txInfo.LogsPreHash = ni.AVMLogsAccHashes[2]
    /\ txInfo.LogsPostHash = ni.AVMLogsAccHashes[3]

\* C6: for txIndex < len(AVMLogs) getTxInfo returns LogsValHashes =
\* AVMLogsValHashes[txIndex+1:], of length len(AVMLogs) - txIndex - 1 (empty
\* for the last index), and RawVal = AVMLogs[txIndex].
C6_ValHashesSuffix ==
    (pc = "txinfo" /\ txIndexArg < Len(ni.AVMLogs)) =>
        /\ ~txInfo.panic
        /\ Len(txInfo.LogsValHashes) = Len(ni.AVMLogs) - txIndexArg - 1
        /\ \A k \in 1..Len(txInfo.LogsValHashes) :
              txInfo.LogsValHashes[k] = ni.AVMLogsValHashes[txIndexArg + 1 + k]
        /\ txInfo.RawVal = ni.AVMLogs[txIndexArg + 1]

\* the last index of three: an empty suffix
C6_Witness ==
    /\ pc = "txinfo" /\ Len(ni.AVMLogs) = 3 /\ txIndexArg = 2
    /\ ~txInfo.panic
    /\ txInfo.LogsValHashes = <<>>
    /\ txInfo.RawVal = node.logs[3]

\* the verifier's replay: fold the value hashes hs into the accumulator acc
RECURSIVE Replay(_, _)
Replay(acc, hs) ==
    IF hs = <<>> THEN acc
    ELSE Replay(SoliditySHA3(acc, Decode(Head(hs))), Tail(hs))

\* C7: for a valid node and txIndex < len(AVMLogs), folding the hash of
\* RawVal and then every element of LogsValHashes into LogsPreHash yields
\* LogsPostHash.
C7_ReplayReachesPostHash ==
    (pc = "txinfo" /\ ValidNode /\ txIndexArg < Len(ni.AVMLogs)) =>
        /\ ~txInfo.panic
        /\ Encode(Replay(SoliditySHA3(Decode(txInfo.LogsPreHash),
                                      ValueHash(txInfo.RawVal)),
                         txInfo.LogsValHashes))
              = txInfo.LogsPostHash

\* a replay from the first of three logs, with two hashes to fold after it
C7_Witness ==
    /\ pc = "txinfo" /\ ValidNode /\ Len(ni.AVMLogs) = 3 /\ txIndexArg = 0
    /\ ~txInfo.panic
    /\ Len(txInfo.LogsValHashes) = 2
    /\ txInfo.LogsPostHash # txInfo.LogsPreHash

\* the positions <<group, log in group>> of the logs of EVMLogs
LogPositions ==
    UNION {{<<g, j>> : j \in 1..Len(ni.EVMLogs[g].Logs)} :
              g \in 1..Len(ni.EVMLogs)}

Before(a, b) == a[1] < b[1] \/ (a[1] = b[1] /\ a[2] < b[2])

Matching ==
    {pos \in LogPositions :
        MatchesQuery(ni.EVMLogs[pos[1]].Logs[pos[2]], query.addresses,
                     query.topics)}

\* C8: FindLogs returns exactly the matching logs of EVMLogs, once each, in
\* group order and then in-group order, each with the TxIndex and TxHash of
\* its group; the empty query returns every log, and a non-empty address
\* list containing no log's address returns nothing.
C8_FindLogsExact ==
    pc = "found" =>
        /\ Len(foundLogs) = Cardinality(Matching)
        /\ \A pos \in Matching :
              foundLogs[1 + Cardinality({q \in Matching : Before(q, pos)})] =
                 [Log |-> ni.EVMLogs[pos[1]].Logs[pos[2]],
                  TxIndex |-> ni.EVMLogs[pos[1]].TxIndex,
                  TxHash |-> ni.EVMLogs[pos[1]].TxHash]
        /\ (query.addresses = <<>> /\ query.topics = <<>>) =>
              Len(foundLogs) = Cardinality(LogPositions)
        /\ (/\ query.addresses # <<>>
            /\ \A pos \in LogPositions : \A k \in 1..Len(query.addresses) :
                  ni.EVMLogs[pos[1]].Logs[pos[2]].Address # query.addresses[k])
              => foundLogs = <<>>

\* a query that selects some but not all logs of two groups, after an
\* undecodable raw log
C8_Witness ==
    /\ pc = "found" /\ Len(node.logs) = 3 /\ ~Decodes(0)
    /\ Len(ni.EVMLogs) = 2
    /\ Len(foundLogs) >= 2
    /\ Len(foundLogs) < Cardinality(LogPositions)
    /\ foundLogs[1].TxIndex # foundLogs[2].TxIndex

\* C9: with txIndex >= len(AVMLogs) getTxInfo does not return a TxInfo: the
\* call ends in a run-time panic.
C9_OutOfRangePanics ==
    (pc = "txinfo" /\ txIndexArg >= Len(ni.AVMLogs)) => txInfo.panic

\* txIndex = len(AVMLogs) on a node with logs: the index before it exists
C9_Witness ==
    /\ pc = "txinfo" /\ Len(ni.AVMLogs) > 0
    /\ txIndexArg = Len(ni.AVMLogs)
    /\ txInfo.panic

\* the group (1-based) that owns the k-th log of the groups in order
RECURSIVE GroupOf(_, _, _)
GroupOf(evmLogs, g, k) ==
    IF k <= Len(evmLogs[g].Logs) THEN g
    ELSE GroupOf(evmLogs, g + 1, k - Len(evmLogs[g].Logs))

\* C10: every log folded into the bloom filter carries the TxIndex and
\* TxHash of its owning group, and its Index counts the logs across all
\* groups from 0.
C10_BloomProvenance ==
    pc = "bloom" =>
        \A k \in 1..Len(ethLogs) :
            LET g == GroupOf(ni.EVMLogs, 1, k)
            IN /\ ethLogs[k].TxIndex = ni.EVMLogs[g].TxIndex
               /\ ethLogs[k].TxHash = ni.EVMLogs[g].TxHash
               /\ ethLogs[k].Index = k - 1


====
